---- MODULE Spec2Model ----
(***************************************************************************)
(* py-agent-client: the CostGuardian (budget state, admission check, spend *)
(* commit), the Router, the TelemetryCollector, the ContextManager and the *)
(* Agent, whose route composes the first three.                            *)
(*                                                                         *)
(* Money is counted in thousandths of a dollar (0.01 is 10), so that the   *)
(* category ceilings and the 0.8 factor of the provider step are exact.    *)
(* Wall-clock time is counted in ticks of 1/TicksPerDay of a day.          *)
(*                                                                         *)
(* The timestamp that track_spend and record_request stamp on each entry   *)
(* is written and never read by the program; the entries are modelled      *)
(* without it.  The clock is read by check_request and reset_daily_budget. *)
(***************************************************************************)
EXTENDS Integers, Sequences, FiniteSets, TLC

VARIABLES
    daily_budget,           \* CostGuardian.daily_budget
    monthly_budget,         \* CostGuardian.monthly_budget
    current_daily_spend,    \* CostGuardian.current_daily_spend
    current_monthly_spend,  \* CostGuardian.current_monthly_spend
    spend_history,          \* CostGuardian.spend_history
    last_daily_reset,       \* CostGuardian.last_daily_reset
    now,                    \* the wall clock read by datetime.now()
    events,                 \* TelemetryCollector.events
    stats,                  \* TelemetryCollector.stats
    pc,                     \* per caller: where it is inside Agent.route
    call,                   \* per caller: the locals of its Agent.route call
    result,                 \* per caller: what its last Agent.route call gave it
    next_id,                \* source of fresh request ids (uuid4)
    contexts,               \* ContextManager.contexts, of Agent.context_manager
    last                    \* the last direct call of a component and its result

guardian == <<daily_budget, monthly_budget, current_daily_spend,
              current_monthly_spend, spend_history, last_daily_reset>>
telemetry == <<events, stats>>
agent == <<pc, call, result, next_id, contexts>>
vars == <<guardian, now, telemetry, agent, last>>

(***************************************************************************)
(* Bounds of the model.                                                    *)
(***************************************************************************)
MaxTime == 2
MaxHistory == 2
MaxRequests == 2
MaxEvents == 3

(***************************************************************************)
(* Program constants.                                                      *)
(***************************************************************************)
TicksPerDay == 2
DefaultDailyBudget == 100000
DefaultMonthlyBudget == 1000000

\* Optional[float]: the empty set is None, {v} is the value v.
None == {}
Some(v) == {v}
TheValue(opt) == CHOOSE v \in opt : TRUE

\* Arguments the callers pass.
CheckCosts == {10, 60}
TrackCosts == {10, 40}
DailyLimits == {50}
MonthlyLimits == {60}

(***************************************************************************)
(* CostGuardian                                                            *)
(***************************************************************************)

\* BudgetExceededError(message, budget_type, current_spend, budget_limit,
\* requested_cost)
BudgetExceededError(message, budget_type, spend, limit, cost) ==
    [message |-> message, budget_type |-> budget_type, current_spend |-> spend,
     budget_limit |-> limit, requested_cost |-> cost]

NoError == [message |-> "", budget_type |-> "", current_spend |-> 0,
            budget_limit |-> 0, requested_cost |-> 0]

\* (now - self.last_daily_reset).days : timedelta.days is the floor of the
\* difference in days.
DaysSince(t) == (now - t) \div TicksPerDay

\* variant: the reset only after more than one full day
ResetDue_late == DaysSince(last_daily_reset) > 1

\* if (now - self.last_daily_reset).days >= 1
ResetDue == DaysSince(last_daily_reset) >= 1

\* the daily spend the admission test reads: after reset_daily_budget() when due
SpendAfterAutoReset == IF ResetDue THEN 0 ELSE current_daily_spend

\* variant: the daily test rejects at the limit itself
CheckError_inclusive(estimated_cost) ==
    IF SpendAfterAutoReset + estimated_cost >= daily_budget
    THEN BudgetExceededError("Daily budget exceeded", "daily",
                             SpendAfterAutoReset, daily_budget, estimated_cost)
    ELSE IF current_monthly_spend + estimated_cost > monthly_budget
    THEN BudgetExceededError("Monthly budget exceeded", "monthly",
                             current_monthly_spend, monthly_budget, estimated_cost)
    ELSE NoError

\* variant: the monthly test before the daily one
CheckError_monthly_first(estimated_cost) ==
    IF current_monthly_spend + estimated_cost > monthly_budget
    THEN BudgetExceededError("Monthly budget exceeded", "monthly",
                             current_monthly_spend, monthly_budget, estimated_cost)
    ELSE IF SpendAfterAutoReset + estimated_cost > daily_budget
    THEN BudgetExceededError("Daily budget exceeded", "daily",
                             SpendAfterAutoReset, daily_budget, estimated_cost)
    ELSE NoError

\* variant: the daily error reports the spend found on entry, before the
\* auto-reset
CheckError_stale(estimated_cost) ==
    IF SpendAfterAutoReset + estimated_cost > daily_budget
    THEN BudgetExceededError("Daily budget exceeded", "daily",
                             current_daily_spend, daily_budget, estimated_cost)
    ELSE IF current_monthly_spend + estimated_cost > monthly_budget
    THEN BudgetExceededError("Monthly budget exceeded", "monthly",
                             current_monthly_spend, monthly_budget, estimated_cost)
    ELSE NoError

\* the two admission tests of check_request, in order; NoError when it
\* returns True
CheckError(estimated_cost) ==
    IF SpendAfterAutoReset + estimated_cost > daily_budget
    THEN BudgetExceededError("Daily budget exceeded", "daily",
                             SpendAfterAutoReset, daily_budget, estimated_cost)
    ELSE IF current_monthly_spend + estimated_cost > monthly_budget
    THEN BudgetExceededError("Monthly budget exceeded", "monthly",
                             current_monthly_spend, monthly_budget, estimated_cost)
    ELSE NoError

\* variant: an admitted request's estimate is added to the daily spend
check_request_reserving(estimated_cost) ==
    /\ current_daily_spend' =
         SpendAfterAutoReset
           + (IF CheckError(estimated_cost) = NoError THEN estimated_cost ELSE 0)
    /\ last_daily_reset' = IF ResetDue THEN now ELSE last_daily_reset
    /\ UNCHANGED <<daily_budget, monthly_budget, current_monthly_spend,
                   spend_history>>

\* variant: the auto-reset starts a new month as well
check_request_new_month(estimated_cost) ==
    /\ current_daily_spend' = SpendAfterAutoReset
    /\ current_monthly_spend' = IF ResetDue THEN 0 ELSE current_monthly_spend
    /\ last_daily_reset' = IF ResetDue THEN now ELSE last_daily_reset
    /\ UNCHANGED <<daily_budget, monthly_budget, spend_history>>

\* the state change of check_request: the auto-reset when due, nothing else
check_request(estimated_cost) ==
    /\ current_daily_spend' = SpendAfterAutoReset
    /\ last_daily_reset' = IF ResetDue THEN now ELSE last_daily_reset
    /\ UNCHANGED <<daily_budget, monthly_budget, current_monthly_spend,
                   spend_history>>

\* an entry of spend_history, without its timestamp (see the head of the module)
HistoryEntry(cost, daily_total, monthly_total) ==
    [cost |-> cost, daily_total |-> daily_total, monthly_total |-> monthly_total]

\* variant: the daily spend never passes the daily limit
track_spend_capped(actual_cost) ==
    /\ current_daily_spend' =
         IF current_daily_spend + actual_cost > daily_budget
         THEN daily_budget ELSE current_daily_spend + actual_cost
    /\ current_monthly_spend' = current_monthly_spend + actual_cost
    /\ spend_history' = Append(spend_history,
         HistoryEntry(actual_cost, current_daily_spend', current_monthly_spend'))
    /\ UNCHANGED <<daily_budget, monthly_budget, last_daily_reset>>

track_spend(actual_cost) ==
    /\ current_daily_spend' = current_daily_spend + actual_cost
    /\ current_monthly_spend' = current_monthly_spend + actual_cost
    /\ spend_history' = Append(spend_history,
         HistoryEntry(actual_cost, current_daily_spend + actual_cost,
                      current_monthly_spend + actual_cost))
    /\ UNCHANGED <<daily_budget, monthly_budget, last_daily_reset>>

\* variant: the daily reset starts a new history as well
reset_daily_budget_clearing ==
    /\ current_daily_spend' = 0
    /\ last_daily_reset' = now
    /\ spend_history' = <<>>
    /\ UNCHANGED <<daily_budget, monthly_budget, current_monthly_spend>>

reset_daily_budget ==
    /\ current_daily_spend' = 0
    /\ last_daily_reset' = now
    /\ UNCHANGED <<daily_budget, monthly_budget, current_monthly_spend,
                   spend_history>>

\* variant: the monthly reset starts a new day as well
reset_monthly_budget_both ==
    /\ current_monthly_spend' = 0
    /\ current_daily_spend' = 0
    /\ UNCHANGED <<daily_budget, monthly_budget, spend_history,
                   last_daily_reset>>

reset_monthly_budget ==
    /\ current_monthly_spend' = 0
    /\ UNCHANGED <<daily_budget, monthly_budget, current_daily_spend,
                   spend_history, last_daily_reset>>

set_budget_limits(daily, monthly) ==
    /\ daily_budget' = daily
    /\ monthly_budget' = monthly
    /\ UNCHANGED <<current_daily_spend, current_monthly_spend, spend_history,
                   last_daily_reset>>

\* get_remaining_budget(): (daily_remaining, monthly_remaining), neither
\* below zero
get_remaining_budget ==
    <<IF daily_budget - current_daily_spend > 0
      THEN daily_budget - current_daily_spend ELSE 0,
      IF monthly_budget - current_monthly_spend > 0
      THEN monthly_budget - current_monthly_spend ELSE 0>>

\* the report export_budget_report returns, without its last_updated stamp;
\* it reads the state and changes nothing
export_budget_report ==
    [daily_budget |-> daily_budget,
     monthly_budget |-> monthly_budget,
     daily_spend |-> current_daily_spend,
     monthly_spend |-> current_monthly_spend,
     daily_remaining |-> get_remaining_budget[1],
     monthly_remaining |-> get_remaining_budget[2],
     total_transactions |-> Len(spend_history)]

(***************************************************************************)
(* Router                                                                  *)
(***************************************************************************)

\* Text is a sequence of one-character strings.
UpperToLower ==
    ("A" :> "a" @@
     "B" :> "b" @@
     "C" :> "c" @@
     "D" :> "d" @@
     "E" :> "e" @@
     "F" :> "f" @@
     "G" :> "g" @@
     "H" :> "h" @@
     "I" :> "i" @@
     "J" :> "j" @@
     "K" :> "k" @@
     "L" :> "l" @@
     "M" :> "m" @@
     "N" :> "n" @@
     "O" :> "o" @@
     "P" :> "p" @@
     "Q" :> "q" @@
     "R" :> "r" @@
     "S" :> "s" @@
     "T" :> "t" @@
     "U" :> "u" @@
     "V" :> "v" @@
     "W" :> "w" @@
     "X" :> "x" @@
     "Y" :> "y" @@
     "Z" :> "z")

\* str.lower()
Lower(text) ==
    [i \in 1..Len(text) |->
       IF text[i] \in DOMAIN UpperToLower THEN UpperToLower[text[i]] ELSE text[i]]

\* sub in text
Contains(sub, text) ==
    \E i \in 1..(Len(text) - Len(sub) + 1) :
       SubSeq(text, i, i + Len(sub) - 1) = sub

IsSpace(ch) == ch \in {" ", "\t", "\n"}

\* len(text.split()): the number of maximal runs of non-whitespace
WordCount(text) ==
    Cardinality({i \in 1..Len(text) :
                   ~IsSpace(text[i]) /\ (i = 1 \/ IsSpace(text[i - 1]))})

Gpt35Turbo == <<"g", "p", "t", "-", "3", ".", "5", "-", "t", "u", "r", "b", "o">>
Gpt4 == <<"g", "p", "t", "-", "4">>
DeepseekCoder == <<"d", "e", "e", "p", "s", "e", "e", "k", "-", "c", "o", "d", "e", "r">>
Claude3Sonnet == <<"c", "l", "a", "u", "d", "e", "-", "3", "-", "s", "o", "n", "n", "e", "t">>

\* Router.routing_rules
routing_rules ==
    [simple_qa |-> [model |-> Gpt35Turbo, max_cost |-> 10],
     code_generation |-> [model |-> Gpt4, max_cost |-> 50],
     analysis |-> [model |-> DeepseekCoder, max_cost |-> 20],
     creative |-> [model |-> Claude3Sonnet, max_cost |-> 30]]

\* variant: only the gpt and claude names are told apart
get_provider_for_model_two(model) ==
    IF Contains(<<"g", "p", "t">>, model) THEN "openai"
    ELSE IF Contains(<<"c", "l", "a", "u", "d", "e">>, model) THEN "anthropic"
    ELSE "openai"

get_provider_for_model(model) ==
    IF Contains(<<"g", "p", "t">>, model) THEN "openai"
    ELSE IF Contains(<<"c", "l", "a", "u", "d", "e">>, model) THEN "anthropic"
    ELSE IF Contains(<<"d", "e", "e", "p", "s", "e", "e", "k">>, model) THEN "deepseek"
    ELSE "openai"

\* variant: a prompt of twenty words is still a short one
Category_twenty_words(prompt) ==
    IF \/ Contains(<<"c", "o", "d", "e">>, Lower(prompt))
       \/ Contains(<<"f", "u", "n", "c", "t", "i", "o", "n">>, Lower(prompt))
    THEN "code_generation"
    ELSE IF \/ Contains(<<"a", "n", "a", "l", "y", "z", "e">>, Lower(prompt))
            \/ Contains(<<"a", "n", "a", "l", "y", "s", "i", "s">>, Lower(prompt))
    THEN "analysis"
    ELSE IF WordCount(prompt) <= 20 /\ Contains(<<"?">>, prompt)
    THEN "simple_qa"
    ELSE "creative"

\* variant: the analysis test before the code test
Category_analysis_first(prompt) ==
    IF \/ Contains(<<"a", "n", "a", "l", "y", "z", "e">>, Lower(prompt))
       \/ Contains(<<"a", "n", "a", "l", "y", "s", "i", "s">>, Lower(prompt))
    THEN "analysis"
    ELSE IF \/ Contains(<<"c", "o", "d", "e">>, Lower(prompt))
            \/ Contains(<<"f", "u", "n", "c", "t", "i", "o", "n">>, Lower(prompt))
    THEN "code_generation"
    ELSE IF WordCount(prompt) < 20 /\ Contains(<<"?">>, prompt)
    THEN "simple_qa"
    ELSE "creative"

\* the first-match chain of route_request
Category(prompt) ==
    IF \/ Contains(<<"c", "o", "d", "e">>, Lower(prompt))
       \/ Contains(<<"f", "u", "n", "c", "t", "i", "o", "n">>, Lower(prompt))
    THEN "code_generation"
    ELSE IF \/ Contains(<<"a", "n", "a", "l", "y", "z", "e">>, Lower(prompt))
            \/ Contains(<<"a", "n", "a", "l", "y", "s", "i", "s">>, Lower(prompt))
    THEN "analysis"
    ELSE IF WordCount(prompt) < 20 /\ Contains(<<"?">>, prompt)
    THEN "simple_qa"
    ELSE "creative"

\* variant: optimizing for cost takes the cheapest rule
route_request_by_mode(prompt, optimize_for, max_cost) ==
    LET category == IF optimize_for = "cost" THEN "simple_qa"
                    ELSE Category(prompt)
        rule == routing_rules[category]
    IN  [model |-> rule.model,
         provider |-> get_provider_for_model(rule.model),
         max_cost |-> rule.max_cost,
         routing_reason |-> category \o "_optimized"]

route_request(prompt, optimize_for, max_cost) ==
    LET category == Category(prompt)
        rule == IF category \in DOMAIN routing_rules
                THEN routing_rules[category]
                ELSE routing_rules["simple_qa"]
    IN  [model |-> rule.model,
         provider |-> get_provider_for_model(rule.model),
         max_cost |-> rule.max_cost,
         routing_reason |-> category \o "_optimized"]

(***************************************************************************)
(* TelemetryCollector                                                      *)
(***************************************************************************)

\* TelemetryCollector.__init__ ; average_cost is the exact quotient num/den
InitialStats ==
    [total_requests |-> 0, total_cost |-> 0, total_tokens |-> 0,
     average_cost |-> [num |-> 0, den |-> 1], average_quality |-> 0,
     average_response_time |-> 0, cost_savings |-> 0, savings_percent |-> 0]

\* variant: the average is taken before the event's cost is added to the total
update_stats_average_first(st, event_data) ==
    LET n == st.total_requests + 1
        s1 == [st EXCEPT !.total_requests = n]
        s2 == IF "cost" \in DOMAIN event_data
              THEN [s1 EXCEPT !.total_cost = @ + event_data.cost,
                              !.average_cost =
                                 [num |-> s1.total_cost, den |-> n]]
              ELSE s1
    IN  IF "tokens_used" \in DOMAIN event_data
        THEN [s2 EXCEPT !.total_tokens = @ + event_data.tokens_used]
        ELSE s2

\* variant: an event without a cost counts as one of cost zero
update_stats_zero_cost(st, event_data) ==
    LET n == st.total_requests + 1
        s1 == [st EXCEPT !.total_requests = n]
        cost == IF "cost" \in DOMAIN event_data THEN event_data.cost ELSE 0
        s2 == [s1 EXCEPT !.total_cost = @ + cost,
                         !.average_cost =
                            [num |-> s1.total_cost + cost, den |-> n]]
    IN  IF "tokens_used" \in DOMAIN event_data
        THEN [s2 EXCEPT !.total_tokens = @ + event_data.tokens_used]
        ELSE s2

\* the statistics after an event; average_cost is kept as the exact quotient
\* total_cost / total_requests it was last assigned
update_stats(st, event_data) ==
    LET n == st.total_requests + 1
        s1 == [st EXCEPT !.total_requests = n]
        s2 == IF "cost" \in DOMAIN event_data
              THEN [s1 EXCEPT !.total_cost = @ + event_data.cost,
                              !.average_cost =
                                 [num |-> s1.total_cost + event_data.cost,
                                  den |-> n]]
              ELSE s1
    IN  IF "tokens_used" \in DOMAIN event_data
        THEN [s2 EXCEPT !.total_tokens = @ + event_data.tokens_used]
        ELSE s2

\* the event is appended (without its timestamp, see the head of the module)
\* and the statistics updated
record_request(event_data) ==
    /\ events' = Append(events, event_data)
    /\ stats' = update_stats(stats, event_data)

\* variant: get_stats hands out the statistics themselves
get_stats_live == [value |-> stats, live |-> TRUE]

\* get_stats() returns self.stats.copy(): a new dict with the same items,
\* which does not follow later changes of self.stats nor carry changes back
get_stats == [value |-> stats, live |-> FALSE]

\* get_events() returns self.events.copy()
get_events == [value |-> events, live |-> FALSE]

\* variant: the log is emptied, the statistics stay
clear_events_log_only ==
    /\ events' = <<>>
    /\ stats' = stats

\* variant: the statistics are set back, the log stays
clear_events_stats_only ==
    /\ events' = events
    /\ stats' = InitialStats

\* the log is emptied and the statistics are set back to those of __init__
clear_events ==
    /\ events' = <<>>
    /\ stats' = InitialStats

(***************************************************************************)
(* Agent.route: each caller runs it one shared-component call at a time.   *)
(***************************************************************************)
Callers == {"a", "b"}

Prompts ==
    {<<"C", "o", "d", "e", "?">>,
     <<"h", "i", "?">>}

OptimizeModes == {"cost", "quality", "speed", "balanced"}
MaxCosts == {None, Some(5)}

QualityScore == 85

\* the exceptions a call can end with, beside the BudgetExceededError
ProviderError ==
    [message |-> "API Error", budget_type |-> "", current_spend |-> 0,
     budget_limit |-> 0, requested_cost |-> 0]

TelemetryError ==
    [message |-> "telemetry failure", budget_type |-> "", current_spend |-> 0,
     budget_limit |-> 0, requested_cost |-> 0]

\* v.strip(): the text without its leading and trailing whitespace
Strip(text) ==
    LET kept == {i \in 1..Len(text) : ~IsSpace(text[i])}
        first == CHOOSE i \in kept : \A j \in kept : i <= j
        final == CHOOSE i \in kept : \A j \in kept : j <= i
    IN  IF kept = {} THEN <<>> ELSE SubSeq(text, first, final)

ValidationError ==
    [message |-> "Prompt cannot be empty", budget_type |-> "",
     current_spend |-> 0, budget_limit |-> 0, requested_cost |-> 0]

\* the validator of RouteRequest.prompt: what it raises for v, NoError when it
\* accepts v
prompt_not_empty(v) ==
    IF Len(v) = 0 \/ Len(Strip(v)) = 0 THEN ValidationError ELSE NoError

\* prompts the validator of RouteRequest refuses: empty, and whitespace only
BlankPrompts ==
    {<<>>,
     <<" ", "\t">>}

NoDecision ==
    [model |-> <<>>, provider |-> "", max_cost |-> 0, routing_reason |-> ""]

NoResponse ==
    [response |-> <<>>, model |-> <<>>, provider |-> "", cost |-> 0,
     tokens_used |-> 0, quality_score |-> 0, routing_reason |-> ""]

\* the locals of a route call (request_id, prompt, routing_decision,
\* estimated_cost, response, e) and what the call has done so far:
\* provider_calls and track_calls count its provider steps and track_spend
\* calls, seen_* are what its check_request read
NoCallYet ==
    [request_id |-> 0, prompt |-> <<>>,
     routing_decision |-> NoDecision, estimated_cost |-> 0,
     response |-> NoResponse, e |-> NoError,
     provider_calls |-> 0, track_calls |-> 0, tracked |-> 0,
     seen_daily |-> 0, seen_daily_budget |-> 0]

\* what route gave its caller: the result dict it returned (its request_id and
\* cost) or the exception it raised
Returned(c) ==
    [outcome |-> "returned", request_id |-> c.request_id,
     cost |-> c.response.cost, e |-> NoError]

Raised(c, e) ==
    [outcome |-> "raised", request_id |-> c.request_id, cost |-> 0, e |-> e]

NoResult == [outcome |-> "none", request_id |-> 0, cost |-> 0, e |-> NoError]

\* prompt[:50]
Prefix(text, n) == SubSeq(text, 1, IF Len(text) < n THEN Len(text) ELSE n)

\* variant: the provider charges a fifth more than the estimate
MockResponse_surcharge(prompt, routing_decision, estimated_cost) ==
    [response |-> Prefix(prompt, 50),
     model |-> routing_decision.model,
     provider |-> routing_decision.provider,
     cost |-> (estimated_cost * 12) \div 10,
     tokens_used |-> WordCount(prompt) + 20,
     quality_score |-> QualityScore,
     routing_reason |-> routing_decision.routing_reason]

\* the mock response of _execute_route: response holds the prompt[:50] part of
\* the text, cost is estimated_cost * 0.8
MockResponse(prompt, routing_decision, estimated_cost) ==
    [response |-> Prefix(prompt, 50),
     model |-> routing_decision.model,
     provider |-> routing_decision.provider,
     cost |-> (estimated_cost * 8) \div 10,
     tokens_used |-> WordCount(prompt) + 20,
     quality_score |-> QualityScore,
     routing_reason |-> routing_decision.routing_reason]

\* route, lines 39-48, and _execute_route up to the estimated cost: a fresh
\* request id and the routing decision, whose max_cost key is always present
RouteStart(p, prompt, optimize_for, max_cost) ==
    /\ pc[p] = "idle"
    /\ next_id <= MaxRequests
    /\ LET d == route_request(prompt, optimize_for, max_cost)
       IN  call' = [call EXCEPT ![p] =
              [NoCallYet EXCEPT !.request_id = next_id,
                                !.prompt = prompt,
                                !.routing_decision = d,
                                !.estimated_cost = d.max_cost]]
    /\ next_id' = next_id + 1
    /\ pc' = [pc EXCEPT ![p] = "check"]
    /\ UNCHANGED <<guardian, now, telemetry, result, contexts, last>>

\* variant: the check waits while another caller is between its check and
\* its commit
RouteCheck_locked(p) ==
    /\ pc[p] = "check"
    /\ \A q \in Callers \ {p} : pc[q] \notin {"provider", "track"}
    /\ check_request(call[p].estimated_cost)
    /\ LET err == CheckError(call[p].estimated_cost)
       IN  /\ call' = [call EXCEPT ![p].e = err,
                                   ![p].seen_daily = SpendAfterAutoReset,
                                   ![p].seen_daily_budget = daily_budget]
           /\ pc' = [pc EXCEPT ![p] = IF err = NoError THEN "provider" ELSE "except"]
    /\ UNCHANGED <<now, telemetry, result, next_id, contexts, last>>

\* variant: a rejection is dropped and the call goes on to the provider
RouteCheck_swallowing(p) ==
    /\ pc[p] = "check"
    /\ check_request(call[p].estimated_cost)
    /\ call' = [call EXCEPT ![p].seen_daily = SpendAfterAutoReset,
                            ![p].seen_daily_budget = daily_budget]
    /\ pc' = [pc EXCEPT ![p] = "provider"]
    /\ UNCHANGED <<now, telemetry, result, next_id, contexts, last>>

\* self.cost_guardian.check_request(estimated_cost)
RouteCheck(p) ==
    /\ pc[p] = "check"
    /\ check_request(call[p].estimated_cost)
    /\ LET err == CheckError(call[p].estimated_cost)
       IN  /\ call' = [call EXCEPT ![p].e = err,
                                   ![p].seen_daily = SpendAfterAutoReset,
                                   ![p].seen_daily_budget = daily_budget]
           /\ pc' = [pc EXCEPT ![p] = IF err = NoError THEN "provider" ELSE "except"]
    /\ UNCHANGED <<now, telemetry, result, next_id, contexts, last>>

\* the provider step answers
RouteProviderOk(p) ==
    /\ pc[p] = "provider"
    /\ call' = [call EXCEPT
          ![p].provider_calls = @ + 1,
          ![p].response = MockResponse(call[p].prompt, call[p].routing_decision,
                                       call[p].estimated_cost)]
    /\ pc' = [pc EXCEPT ![p] = "track"]
    /\ UNCHANGED <<guardian, now, telemetry, result, next_id, contexts, last>>

\* variant: a failed provider step is tried a second time
RouteProviderFails_retrying(p) ==
    /\ pc[p] = "provider"
    /\ call' = [call EXCEPT ![p].provider_calls = @ + 1, ![p].e = ProviderError]
    /\ pc' = [pc EXCEPT ![p] = IF call[p].provider_calls = 0 THEN "provider"
                                ELSE "except"]
    /\ UNCHANGED <<guardian, now, telemetry, result, next_id, contexts, last>>

\* the provider step raises
RouteProviderFails(p) ==
    /\ pc[p] = "provider"
    /\ call' = [call EXCEPT ![p].provider_calls = @ + 1, ![p].e = ProviderError]
    /\ pc' = [pc EXCEPT ![p] = "except"]
    /\ UNCHANGED <<guardian, now, telemetry, result, next_id, contexts, last>>

\* variant: the estimated cost is committed instead of the response's cost
RouteTrack_estimated(p) ==
    /\ pc[p] = "track"
    /\ track_spend(call[p].estimated_cost)
    /\ call' = [call EXCEPT ![p].track_calls = @ + 1,
                            ![p].tracked = @ + call[p].estimated_cost]
    /\ pc' = [pc EXCEPT ![p] = "record"]
    /\ UNCHANGED <<now, telemetry, result, next_id, contexts, last>>

\* self.cost_guardian.track_spend(response["cost"])
RouteTrack(p) ==
    /\ pc[p] = "track"
    /\ track_spend(call[p].response.cost)
    /\ call' = [call EXCEPT ![p].track_calls = @ + 1,
                            ![p].tracked = @ + call[p].response.cost]
    /\ pc' = [pc EXCEPT ![p] = "record"]
    /\ UNCHANGED <<now, telemetry, result, next_id, contexts, last>>

\* variant: the success event carries the estimated cost
SuccessEvent_estimated(c) ==
    [request_id |-> c.request_id, cost |-> c.estimated_cost,
     tokens_used |-> c.response.tokens_used, model |-> c.response.model,
     quality_score |-> c.response.quality_score]

\* the event of lines 56-64, without prompt_length and duration_ms
SuccessEvent(c) ==
    [request_id |-> c.request_id, cost |-> c.response.cost,
     tokens_used |-> c.response.tokens_used, model |-> c.response.model,
     quality_score |-> c.response.quality_score]

\* route, lines 52-66: the success event is recorded, the result returned
RouteRecord(p) ==
    /\ pc[p] = "record"
    /\ record_request(SuccessEvent(call[p]))
    /\ result' = [result EXCEPT ![p] = Returned(call[p])]
    /\ call' = [call EXCEPT ![p] = NoCallYet]
    /\ pc' = [pc EXCEPT ![p] = "idle"]
    /\ UNCHANGED <<guardian, now, next_id, contexts, last>>

ErrorEvent(c) == [request_id |-> c.request_id, error |-> c.e.message]

\* variant: a budget rejection is raised again without an event
RouteExcept_unrecorded_rejection(p) ==
    /\ pc[p] = "except"
    /\ IF call[p].e.budget_type = ""
       THEN record_request(ErrorEvent(call[p]))
       ELSE UNCHANGED telemetry
    /\ result' = [result EXCEPT ![p] = Raised(call[p], call[p].e)]
    /\ call' = [call EXCEPT ![p] = NoCallYet]
    /\ pc' = [pc EXCEPT ![p] = "idle"]
    /\ UNCHANGED <<guardian, now, next_id, contexts, last>>

\* route, lines 68-71: the error event is recorded, the exception raised again
RouteExcept(p) ==
    /\ pc[p] = "except"
    /\ record_request(ErrorEvent(call[p]))
    /\ result' = [result EXCEPT ![p] = Raised(call[p], call[p].e)]
    /\ call' = [call EXCEPT ![p] = NoCallYet]
    /\ pc' = [pc EXCEPT ![p] = "idle"]
    /\ UNCHANGED <<guardian, now, next_id, contexts, last>>

\* telemetry.record_request raises inside the try block of route (a collector
\* that fails): the except clause takes over with that exception
RouteRecordFault(p) ==
    /\ pc[p] = "record"
    /\ call' = [call EXCEPT ![p].e = TelemetryError]
    /\ pc' = [pc EXCEPT ![p] = "except"]
    /\ UNCHANGED <<guardian, now, telemetry, result, next_id, contexts, last>>

\* telemetry.record_request raises inside the except clause: that exception
\* leaves route
RouteExceptFault(p) ==
    /\ pc[p] = "except"
    /\ result' = [result EXCEPT ![p] = Raised(call[p], TelemetryError)]
    /\ call' = [call EXCEPT ![p] = NoCallYet]
    /\ pc' = [pc EXCEPT ![p] = "idle"]
    /\ UNCHANGED <<guardian, now, telemetry, next_id, contexts, last>>

\* Agent.set_budget(daily, monthly), each Optional
\* variant: a limit that is not supplied goes back to its default
SetBudget_defaulting(daily, monthly) ==
    /\ daily_budget' = IF daily # None THEN TheValue(daily)
                       ELSE DefaultDailyBudget
    /\ monthly_budget' = IF monthly # None THEN TheValue(monthly)
                         ELSE DefaultMonthlyBudget
    /\ UNCHANGED <<current_daily_spend, current_monthly_spend, spend_history,
                   last_daily_reset, now, telemetry, agent, last>>

\* Agent.set_budget(daily=None, monthly=None)
SetBudget(daily, monthly) ==
    /\ daily_budget' = IF daily # None THEN TheValue(daily) ELSE daily_budget
    /\ monthly_budget' = IF monthly # None THEN TheValue(monthly) ELSE monthly_budget
    /\ UNCHANGED <<current_daily_spend, current_monthly_spend, spend_history,
                   last_daily_reset, now, telemetry, agent, last>>

(***************************************************************************)
(* ContextManager: the contexts of the sessions, a dict from session id to *)
(* a dict; a dict is a function on its keys.                               *)
(***************************************************************************)
\* ContextManager.__init__: no session
NoContexts == [s \in {} |-> [k \in {} |-> ""]]

SessionIds == {"", "s1", "s2"}
ContextDicts == {[topic |-> "a"], [topic |-> "b"]}
ContextUpdates == {[user |-> "u"]}

\* store[session_id] = context
Put(store, session_id, context) ==
    [s \in DOMAIN store \cup {session_id} |->
       IF s = session_id THEN context ELSE store[s]]

\* store.pop(session_id, None)
Pop(store, session_id) ==
    [s \in DOMAIN store \ {session_id} |-> store[s]]

\* self.contexts.get(session_id): None for a session that has no context
get_context(session_id) ==
    IF session_id \in DOMAIN contexts THEN Some(contexts[session_id]) ELSE None

set_context(session_id, context) ==
    contexts' = Put(contexts, session_id, context)

\* if session_id: ... else: ... ; None and the empty string are both false
clear_context(session_id) ==
    IF session_id # None /\ TheValue(session_id) # ""
    THEN contexts' = Pop(contexts, TheValue(session_id))
    ELSE contexts' = NoContexts

\* dict.update: the keys of updates take their new values, the others stay
update_context(session_id, updates) ==
    LET old == IF session_id \in DOMAIN contexts THEN contexts[session_id]
               ELSE [k \in {} |-> ""]
        new == [k \in DOMAIN old \cup DOMAIN updates |->
                  IF k \in DOMAIN updates THEN updates[k] ELSE old[k]]
    IN  contexts' = Put(contexts, session_id, new)

GetContext(session_id) ==
    /\ last' = [op |-> "get_context", arg |-> session_id,
                returned |-> get_context(session_id)]
    /\ UNCHANGED <<guardian, now, telemetry, pc, call, result, next_id,
                   contexts>>

SetContext(session_id, context) ==
    /\ set_context(session_id, context)
    /\ UNCHANGED <<guardian, now, telemetry, pc, call, result, next_id, last>>

\* Agent.clear_context(session_id=None) hands its argument to the store
ClearContext(session_id) ==
    /\ clear_context(session_id)
    /\ UNCHANGED <<guardian, now, telemetry, pc, call, result, next_id, last>>

UpdateContext(session_id, updates) ==
    /\ update_context(session_id, updates)
    /\ UNCHANGED <<guardian, now, telemetry, pc, call, result, next_id, last>>

(***************************************************************************)
(* The CostGuardian driven directly, as its unit tests drive it.           *)
(***************************************************************************)
\* what a direct call was, what it raised (NoError: it returned), whether it
\* took the auto-reset branch, and the daily spend it found on entry
Called(op, arg, error, reset) ==
    [op |-> op, arg |-> arg, error |-> error, reset |-> reset,
     before |-> current_daily_spend]

NoCall == Called("none", 0, NoError, FALSE)

\* the time passes; every component reads the same clock
Tick ==
    /\ now < MaxTime
    /\ now' = now + 1
    /\ UNCHANGED <<guardian, telemetry, agent, last>>

CheckRequest(c) ==
    /\ check_request(c)
    /\ last' = Called("check_request", c, CheckError(c), ResetDue)
    /\ UNCHANGED <<now, telemetry, agent>>

TrackSpend(c) ==
    /\ Len(spend_history) < MaxHistory
    /\ track_spend(c)
    /\ last' = Called("track_spend", c, NoError, FALSE)
    /\ UNCHANGED <<now, telemetry, agent>>

ResetDailyBudget ==
    /\ reset_daily_budget
    /\ last' = Called("reset_daily_budget", 0, NoError, FALSE)
    /\ UNCHANGED <<now, telemetry, agent>>

ResetMonthlyBudget ==
    /\ reset_monthly_budget
    /\ last' = Called("reset_monthly_budget", 0, NoError, FALSE)
    /\ UNCHANGED <<now, telemetry, agent>>

SetBudgetLimits(d, m) ==
    /\ set_budget_limits(d, m)
    /\ last' = Called("set_budget_limits", 0, NoError, FALSE)
    /\ UNCHANGED <<now, telemetry, agent>>

ExportBudgetReport ==
    /\ last' = Called("export_budget_report", export_budget_report, NoError,
                      FALSE)
    /\ UNCHANGED <<guardian, now, telemetry, agent>>

(***************************************************************************)
(* The Router driven directly: route_request is a function of its          *)
(* arguments, the Router holds no state that changes.                      *)
(***************************************************************************)
\* the example_prompts of the tests, and prompts at the edges of the chain:
\* keywords in other letter cases and inside longer words, several keywords
\* at once, nineteen and twenty words, no word at all
RouterPrompts ==
    {<<"W", "h", "a", "t", " ", "i", "s", " ", "t", "h", "e", " ", "c", "a",
       "p", "i", "t", "a", "l", " ", "o", "f", " ", "F", "r", "a", "n", "c",
       "e", "?">>,
     <<"W", "r", "i", "t", "e", " ", "a", " ", "c", "o", "m", "p", "r", "e",
       "h", "e", "n", "s", "i", "v", "e", " ", "a", "n", "a", "l", "y", "s",
       "i", "s", " ", "o", "f", " ", "m", "a", "c", "h", "i", "n", "e", " ",
       "l", "e", "a", "r", "n", "i", "n", "g", " ", "t", "r", "e", "n", "d",
       "s", " ", "i", "n", " ", "2", "0", "2", "4">>,
     <<"G", "e", "n", "e", "r", "a", "t", "e", " ", "a", " ", "P", "y", "t",
       "h", "o", "n", " ", "f", "u", "n", "c", "t", "i", "o", "n", " ", "t",
       "o", " ", "i", "m", "p", "l", "e", "m", "e", "n", "t", " ", "a", " ",
       "b", "i", "n", "a", "r", "y", " ", "s", "e", "a", "r", "c", "h", " ",
       "t", "r", "e", "e">>,
     <<"W", "r", "i", "t", "e", " ", "a", " ", "c", "r", "e", "a", "t", "i",
       "v", "e", " ", "s", "h", "o", "r", "t", " ", "s", "t", "o", "r", "y",
       " ", "a", "b", "o", "u", "t", " ", "t", "i", "m", "e", " ", "t", "r",
       "a", "v", "e", "l">>,
     <<"C", "o", "d", "e", "?">>,
     <<"h", "i", "?">>,
     <<"A", "N", "A", "L", "Y", "Z", "E", " ", "t", "h", "i", "s", " ", "C",
       "O", "D", "E", "?">>,
     <<"D", "e", "c", "o", "d", "e", " ", "i", "t">>,
     <<"I", "s", " ", "p", "s", "y", "c", "h", "o", "a", "n", "a", "l", "y",
       "s", "i", "s", " ", "r", "e", "a", "l", "?">>,
     <<>>,
     <<" ", "\t">>,
     <<"a", " ", "a", " ", "a", " ", "a", " ", "a", " ", "a", " ", "a", " ",
       "a", " ", "a", " ", "a", " ", "a", " ", "a", " ", "a", " ", "a", " ",
       "a", " ", "a", " ", "a", " ", "a", " ", "a", "?">>,
     <<"a", " ", "a", " ", "a", " ", "a", " ", "a", " ", "a", " ", "a", " ",
       "a", " ", "a", " ", "a", " ", "a", " ", "a", " ", "a", " ", "a", " ",
       "a", " ", "a", " ", "a", " ", "a", " ", "a", " ", "a", "?">>,
     <<"F", "U", "N", "C", "T", "I", "O", "N">>,
     <<"b", " ", "b", " ", "b", " ", "b", " ", "b", " ", "b", " ", "b", " ",
       "b", " ", "b", " ", "b", " ", "b", " ", "b", " ", "b", " ", "b", " ",
       "b", " ", "b", " ", "b", " ", "b", " ", "b", " ", "b", " ", "f", "U",
       "n", "C", "t", "I", "o", "N">>,
     <<"A", "n", "a", "l", "y", "s", "e", " ", "i", "t", "?">>}

\* a direct call of route_request and the decision it returned
Routed(prompt, optimize_for, max_cost) ==
    [prompt |-> prompt, optimize_for |-> optimize_for, max_cost |-> max_cost,
     decision |-> route_request(prompt, optimize_for, max_cost)]

NotRouted ==
    [prompt |-> <<>>, optimize_for |-> "", max_cost |-> None,
     decision |-> NoDecision]

RouteRequest(prompt, optimize_for, max_cost) ==
    /\ last' = [op |-> "route_request",
                this |-> Routed(prompt, optimize_for, max_cost),
                previous |-> NotRouted]
    /\ UNCHANGED <<guardian, now, telemetry, agent>>

\* a second call on the same Router, the first one remembered beside it
PairPrompts ==
    {<<"C", "o", "d", "e", "?">>,
     <<"h", "i", "?">>,
     <<"A", "n", "a", "l", "y", "z", "e", " ", "i", "t">>,
     <<"h", "i">>}

RouteRequestAgain(prompt, optimize_for, max_cost) ==
    /\ last.op = "route_request"
    /\ last' = [op |-> "route_request",
                this |-> Routed(prompt, optimize_for, max_cost),
                previous |-> last.this]
    /\ UNCHANGED <<guardian, now, telemetry, agent>>

(***************************************************************************)
(* The TelemetryCollector driven directly.                                 *)
(***************************************************************************)
\* events as route records them and as a caller may: with cost, tokens_used
\* and quality_score, with the cost only, with the tokens only, with neither
TelemetryEvents ==
    {[cost |-> 10, tokens_used |-> 21, quality_score |-> QualityScore],
     [cost |-> 20, tokens_used |-> 22, quality_score |-> QualityScore],
     [cost |-> 30, tokens_used |-> 23, quality_score |-> QualityScore],
     [request_id |-> 1, cost |-> 10],
     [request_id |-> 1, tokens_used |-> 21],
     [request_id |-> 1, error |-> "API Error"]}

RecordRequest(event_data) ==
    /\ Len(events) < MaxEvents
    /\ record_request(event_data)
    /\ last' = Called("record_request", event_data, NoError, FALSE)
    /\ UNCHANGED <<guardian, now, agent>>

\* arg: how many events the call found in the log
ClearEvents ==
    /\ clear_events
    /\ last' = Called("clear_events", Len(events), NoError, FALSE)
    /\ UNCHANGED <<guardian, now, agent>>

NoSnapshot == [total_requests |-> -1]

\* a get_stats() call: what it returned, the dict its caller now holds, and
\* (previous) the dict the caller held from the get_stats() call just before,
\* (after, cleared) the call made just before and, if that was clear_events,
\* the number of events it removed
GetStats ==
    /\ last' = [op |-> "get_stats",
                returned |-> get_stats.value,
                held |-> get_stats.value,
                live |-> get_stats.live,
                previous |-> IF last.op = "get_stats"
                             THEN last.held ELSE NoSnapshot,
                after |-> last.op,
                cleared |-> IF last.op = "clear_events" THEN last.arg ELSE 0]
    /\ UNCHANGED <<guardian, now, telemetry, agent>>

\* the caller of get_stats() writes into the dict it was given; the write
\* reaches self.stats only if the dict is self.stats
MutateSnapshot(key, value) ==
    /\ last.op = "get_stats"
    /\ last.held[key] # value
    /\ last' = [last EXCEPT !.held[key] = value]
    /\ stats' = IF last.live THEN [stats EXCEPT ![key] = value] ELSE stats
    /\ UNCHANGED <<guardian, now, events, agent>>

GetEvents ==
    /\ last' = [op |-> "get_events",
                returned |-> get_events.value,
                after |-> last.op,
                cleared |-> IF last.op = "clear_events" THEN last.arg ELSE 0]
    /\ UNCHANGED <<guardian, now, telemetry, agent>>

\* CostGuardian(daily_budget, monthly_budget), the rest as Agent.__init__
\* leaves it
InitWith(daily, monthly) ==
    /\ daily_budget = daily
    /\ monthly_budget = monthly
    /\ current_daily_spend = 0
    /\ current_monthly_spend = 0
    /\ spend_history = <<>>
    /\ last_daily_reset = 0
    /\ now = 0
    /\ events = <<>>
    /\ stats = InitialStats
    /\ pc = [p \in Callers |-> "idle"]
    /\ call = [p \in Callers |-> NoCallYet]
    /\ result = [p \in Callers |-> NoResult]
    /\ next_id = 1
    /\ contexts = NoContexts
    /\ last = NoCall

GuardianInit ==
    \E d \in DailyLimits \cup {DefaultDailyBudget},
       m \in MonthlyLimits \cup {DefaultMonthlyBudget} : InitWith(d, m)

GuardianNext ==
    \/ Tick
    \/ \E c \in CheckCosts : CheckRequest(c)
    \/ \E c \in TrackCosts : TrackSpend(c)
    \/ ResetDailyBudget
    \/ ResetMonthlyBudget
    \/ \E d \in DailyLimits, m \in MonthlyLimits : SetBudgetLimits(d, m)
    \/ ExportBudgetReport

GuardianSpec == GuardianInit /\ [][GuardianNext]_vars

\* Agent(api_key): CostGuardian() with its default limits
Init == InitWith(DefaultDailyBudget, DefaultMonthlyBudget)

Next ==
    \/ Tick
    \/ \E p \in Callers, prompt \in Prompts, mode \in OptimizeModes,
          max_cost \in MaxCosts : RouteStart(p, prompt, mode, max_cost)
    \/ \E p \in Callers : RouteCheck(p)
    \/ \E p \in Callers : RouteProviderOk(p)
    \/ \E p \in Callers : RouteProviderFails(p)
    \/ \E p \in Callers : RouteTrack(p)
    \/ \E p \in Callers : RouteRecord(p)
    \/ \E p \in Callers : RouteExcept(p)
    \/ \E d \in {None} \cup {Some(x) : x \in DailyLimits},
          m \in {None} \cup {Some(x) : x \in MonthlyLimits} : SetBudget(d, m)

Spec == Init /\ [][Next]_vars

RouterNext ==
    \E prompt \in RouterPrompts, mode \in OptimizeModes, max_cost \in MaxCosts :
       RouteRequest(prompt, mode, max_cost)

RouterSpec == Init /\ [][RouterNext]_vars

\* pairs of calls on one Router
RouterPairNext ==
    \/ \E prompt \in PairPrompts, mode \in OptimizeModes, max_cost \in MaxCosts :
          RouteRequest(prompt, mode, max_cost)
    \/ \E prompt \in PairPrompts, mode \in OptimizeModes, max_cost \in MaxCosts :
          RouteRequestAgain(prompt, mode, max_cost)

RouterPairSpec == Init /\ [][RouterPairNext]_vars

TelemetryNext ==
    \/ \E event_data \in TelemetryEvents : RecordRequest(event_data)
    \/ ClearEvents
    \/ GetStats
    \/ MutateSnapshot("total_cost", 999)
    \/ GetEvents

TelemetrySpec == Init /\ [][TelemetryNext]_vars

ContextNext ==
    \/ \E sid \in SessionIds : GetContext(sid)
    \/ \E sid \in SessionIds, context \in ContextDicts : SetContext(sid, context)
    \/ \E sid \in {None} \cup {Some(x) : x \in SessionIds} : ClearContext(sid)
    \/ \E sid \in SessionIds, updates \in ContextUpdates :
          UpdateContext(sid, updates)

ContextSpec == Init /\ [][ContextNext]_vars

\* One Agent used by one caller, each route call finished before the next is
\* made.  The limits are the default ones or were set before the first
\* request, and set_budget never lowers a limit.
SeqInit ==
    \E d \in DailyLimits \cup {DefaultDailyBudget},
       m \in MonthlyLimits \cup {DefaultMonthlyBudget} : InitWith(d, m)

SeqNext ==
    \/ Tick
    \/ \E prompt \in Prompts, mode \in OptimizeModes, max_cost \in MaxCosts :
          RouteStart("a", prompt, mode, max_cost)
    \/ RouteCheck("a")
    \/ RouteProviderOk("a")
    \/ RouteProviderFails("a")
    \/ RouteTrack("a")
    \/ RouteRecord("a")
    \/ RouteExcept("a")
    \/ \E d \in {None} \cup {Some(x) : x \in DailyLimits \cup {DefaultDailyBudget}},
          m \in {None} \cup {Some(x) : x \in MonthlyLimits \cup {DefaultMonthlyBudget}} :
          /\ d # None => TheValue(d) >= daily_budget
          /\ m # None => TheValue(m) >= monthly_budget
          /\ SetBudget(d, m)

SeqSpec == SeqInit /\ [][SeqNext]_vars

\* One Agent, one caller, and the month's budget managed beside the calls:
\* reset_monthly_budget called on the CostGuardian, and set_budget lowering
\* the monthly limit and raising it again.
AdminMonthlyLimits == {45, DefaultMonthlyBudget}

AdminNext ==
    \/ Tick
    \/ \E prompt \in Prompts, mode \in OptimizeModes, max_cost \in MaxCosts :
          RouteStart("a", prompt, mode, max_cost)
    \/ RouteCheck("a")
    \/ RouteProviderOk("a")
    \/ RouteProviderFails("a")
    \/ RouteTrack("a")
    \/ RouteRecord("a")
    \/ RouteExcept("a")
    \/ ResetMonthlyBudget
    \/ \E m \in AdminMonthlyLimits : SetBudget(None, Some(m))

AdminSpec == Init /\ [][AdminNext]_vars

\* Agent.route called with empty and whitespace-only prompts as well
BlankNext ==
    \/ Next
    \/ \E p \in Callers, prompt \in BlankPrompts, mode \in OptimizeModes,
          max_cost \in MaxCosts : RouteStart(p, prompt, mode, max_cost)

BlankSpec == Init /\ [][BlankNext]_vars

\* the same, with a TelemetryCollector whose record_request can raise
FaultNext ==
    \/ Next
    \/ \E p \in Callers : RouteRecordFault(p)
    \/ \E p \in Callers : RouteExceptFault(p)

FaultSpec == Init /\ [][FaultNext]_vars

(***************************************************************************)
(* Claims about the CostGuardian, checked under GuardianSpec.              *)
(***************************************************************************)

\* C1: when no daily auto-reset is due, check_request(c) raises the daily
\* budget error exactly when current_daily_spend + c > daily_budget; when the
\* sum equals daily_budget and the monthly test passes it returns True.
C1_DailyBoundary ==
    [][\A c \in CheckCosts :
         (CheckRequest(c) /\ DaysSince(last_daily_reset) < 1) =>
            /\ (last'.error.budget_type = "daily")
                 <=> (current_daily_spend + c > daily_budget)
            /\ (/\ current_daily_spend + c = daily_budget
                /\ current_monthly_spend + c <= monthly_budget)
                 => last'.error = NoError]_vars

\* a check_request with no reset due was admitted at exactly the daily limit
C1_Witness ==
    /\ last.op = "check_request"
    /\ ~last.reset
    /\ last.error = NoError
    /\ last.before > 0
    /\ last.before + last.arg = daily_budget

\* C2: check_request(c) raises the monthly budget error exactly when the daily
\* test passes and current_monthly_spend + c > monthly_budget; when both limits
\* would be exceeded the error is the daily one.
C2_MonthlyAfterDaily ==
    [][\A c \in CheckCosts :
         CheckRequest(c) =>
            /\ (last'.error.budget_type = "monthly")
                 <=> (/\ current_daily_spend' + c <= daily_budget
                      /\ current_monthly_spend + c > monthly_budget)
            /\ (/\ current_daily_spend' + c > daily_budget
                /\ current_monthly_spend + c > monthly_budget)
                 => last'.error.budget_type = "daily"]_vars

\* a check_request was rejected with the monthly error
C2_Witness ==
    /\ last.op = "check_request"
    /\ last.error.budget_type = "monthly"
    /\ current_daily_spend + last.arg <= daily_budget
    /\ current_monthly_spend + last.arg > monthly_budget

\* C3: a check_request made a day or more after the last daily reset zeroes
\* current_daily_spend and moves the reset timestamp to now before it decides,
\* so it decides against a daily spend of 0, and the reset stays when the
\* request is rejected; made earlier, it resets nothing.
C3_AutoReset ==
    [][\A c \in CheckCosts :
         CheckRequest(c) =>
            IF (now - last_daily_reset) \div TicksPerDay >= 1
            THEN /\ current_daily_spend' = 0
                 /\ last_daily_reset' = now
                 /\ (last'.error.budget_type = "daily") <=> (c > daily_budget)
            ELSE /\ current_daily_spend' = current_daily_spend
                 /\ last_daily_reset' = last_daily_reset]_vars

\* a check_request found a positive daily spend, reset it and then rejected
C3_Witness ==
    /\ last.op = "check_request"
    /\ last.reset
    /\ last.before > 0
    /\ last.error.budget_type = "daily"
    /\ current_daily_spend = 0
    /\ last_daily_reset = now

\* C9: track_spend(c) with c > 0 adds exactly c to current_daily_spend and to
\* current_monthly_spend, whatever the limits, and changes neither limit nor
\* the reset timestamp.
C9_TrackAddsExactly ==
    [][\A c \in TrackCosts :
         TrackSpend(c) =>
            /\ c > 0
            /\ current_daily_spend' = current_daily_spend + c
            /\ current_monthly_spend' = current_monthly_spend + c
            /\ UNCHANGED <<daily_budget, monthly_budget, last_daily_reset>>]_vars

\* a track_spend took the daily spend from within the limit to beyond it
C9_Witness ==
    /\ last.op = "track_spend"
    /\ last.before <= daily_budget
    /\ current_daily_spend = last.before + last.arg
    /\ current_daily_spend > daily_budget

\* C10: a check_request made when no auto-reset is due changes nothing of the
\* budget state, whether it admits or rejects.
C10_CheckIsPure ==
    [][\A c \in CheckCosts :
         (CheckRequest(c) /\ (now - last_daily_reset) \div TicksPerDay < 1) =>
            UNCHANGED guardian]_vars

\* a check_request with no reset due admitted a request against a positive spend
C10_Witness ==
    /\ last.op = "check_request"
    /\ ~last.reset
    /\ last.error = NoError
    /\ current_daily_spend > 0
    /\ current_daily_spend + last.arg < daily_budget

\* C11: the spend history is append-only.  A track_spend(c) appends exactly
\* one entry, whose cost is c and whose daily_total and monthly_total are the
\* two counters as the call leaves them; every other operation (check_request
\* with or without its auto-reset, the two resets, set_budget_limits, the
\* report) leaves the history as it was.  So the length of the history grows
\* by one with each track_spend and never otherwise.
C11_HistoryAppendOnly ==
    [][/\ \A c \in TrackCosts :
            TrackSpend(c) =>
               /\ Len(spend_history') = Len(spend_history) + 1
               /\ SubSeq(spend_history', 1, Len(spend_history)) = spend_history
               /\ spend_history'[Len(spend_history')] =
                    [cost |-> c,
                     daily_total |-> current_daily_spend',
                     monthly_total |-> current_monthly_spend']
       /\ (~ \E c \in TrackCosts : TrackSpend(c)) =>
               spend_history' = spend_history]_vars

\* a daily reset made after two track_spend calls found both entries and left
\* them, the second carrying the totals of both
C11_Witness ==
    /\ last.op = "reset_daily_budget"
    /\ last.before > 0
    /\ current_daily_spend = 0
    /\ Len(spend_history) = 2
    /\ spend_history[2].daily_total =
         spend_history[1].cost + spend_history[2].cost

\* C12: every error check_request raises names which budget was exceeded and
\* carries the figures the decision was made on: a daily error carries the
\* daily spend as the check read it (zero after an auto-reset) and the daily
\* limit, a monthly error the monthly spend and the monthly limit, and both
\* the estimated cost that was asked for.
C12_ErrorPayload ==
    [][\A c \in CheckCosts :
         (CheckRequest(c) /\ last'.error # NoError) =>
            /\ last'.error.budget_type \in {"daily", "monthly"}
            /\ last'.error.requested_cost = c
            /\ last'.error.budget_type = "daily" =>
                  /\ last'.error.current_spend = current_daily_spend'
                  /\ last'.error.budget_limit = daily_budget
                  /\ current_daily_spend' + c > daily_budget
            /\ last'.error.budget_type = "monthly" =>
                  /\ last'.error.current_spend = current_monthly_spend
                  /\ last'.error.budget_limit = monthly_budget
                  /\ current_monthly_spend + c > monthly_budget]_vars

\* a check_request that took the auto-reset with a positive spend on entry
\* still rejected on the daily limit, reporting the spend after the reset
C12_Witness ==
    /\ last.op = "check_request"
    /\ last.reset
    /\ last.before > 0
    /\ last.error.budget_type = "daily"
    /\ last.error.current_spend = 0
    /\ last.error.budget_limit = daily_budget
    /\ last.error.requested_cost = last.arg

\* C24: reset_daily_budget zeroes the daily spend and stamps the reset time,
\* and leaves the monthly spend, both limits and the history; and
\* reset_monthly_budget zeroes the monthly spend and leaves the daily spend,
\* the reset time, both limits and the history.
C24_ResetFrame ==
    [][/\ ResetDailyBudget =>
            /\ current_daily_spend' = 0
            /\ last_daily_reset' = now
            /\ UNCHANGED <<current_monthly_spend, daily_budget, monthly_budget,
                           spend_history>>
       /\ ResetMonthlyBudget =>
            /\ current_monthly_spend' = 0
            /\ UNCHANGED <<current_daily_spend, last_daily_reset, daily_budget,
                           monthly_budget, spend_history>>]_vars

\* half a day after the last daily reset, with spend on both counters, a
\* reset_monthly_budget zeroed the monthly spend only
C24_Witness ==
    /\ last.op = "reset_monthly_budget"
    /\ last.before > 0
    /\ current_daily_spend = last.before
    /\ current_monthly_spend = 0
    /\ last_daily_reset < now
    /\ spend_history # <<>>

(***************************************************************************)
(* Claims about the Router, checked under RouterSpec.                      *)
(***************************************************************************)
\* the prompt has the keyword in it, in any letter case
HasWord(word, prompt) ==
    \E i \in 1..Len(prompt) :
       /\ i + Len(word) - 1 <= Len(prompt)
       /\ \A k \in 1..Len(word) : Lower(<<prompt[i + k - 1]>>) = <<word[k]>>

HasCodeWord(prompt) ==
    \/ HasWord(<<"c", "o", "d", "e">>, prompt)
    \/ HasWord(<<"f", "u", "n", "c", "t", "i", "o", "n">>, prompt)

HasAnalysisWord(prompt) ==
    \/ HasWord(<<"a", "n", "a", "l", "y", "z", "e">>, prompt)
    \/ HasWord(<<"a", "n", "a", "l", "y", "s", "i", "s">>, prompt)

HasQuestionMark(prompt) == \E i \in 1..Len(prompt) : prompt[i] = "?"

\* C15: a prompt with "code" or "function" in it, in any letter case, gets the
\* code_generation decision (gpt-4 at openai, reason
\* code_generation_optimized), whatever else it contains and however long it
\* is.
C15_CodeFirst ==
    (last.op = "route_request" /\ HasCodeWord(last.this.prompt)) =>
        /\ last.this.decision.routing_reason = "code_generation_optimized"
        /\ last.this.decision.model = Gpt4
        /\ last.this.decision.provider = "openai"

\* a short question that asks to analyze code was routed as code_generation
C15_Witness ==
    /\ last.op = "route_request"
    /\ HasCodeWord(last.this.prompt)
    /\ HasAnalysisWord(last.this.prompt)
    /\ HasQuestionMark(last.this.prompt)
    /\ WordCount(last.this.prompt) < 20
    /\ last.this.decision.routing_reason = "code_generation_optimized"

\* C16: the chain is first match wins and gives every prompt exactly one
\* category.  Without a code word, a prompt with "analyze" or "analysis" in
\* it (any letter case) is analysis; without either, a prompt of fewer than
\* twenty whitespace-separated words with a "?" in it is simple_qa; every
\* other prompt is creative.
C16_FirstMatchChain ==
    (last.op = "route_request" /\ ~HasCodeWord(last.this.prompt)) =>
        LET prompt == last.this.prompt
            reason == last.this.decision.routing_reason
            short_question == WordCount(prompt) < 20 /\ HasQuestionMark(prompt)
        IN  /\ HasAnalysisWord(prompt) => reason = "analysis_optimized"
            /\ (~HasAnalysisWord(prompt) /\ short_question) =>
                  reason = "simple_qa_optimized"
            /\ (~HasAnalysisWord(prompt) /\ ~short_question) =>
                  reason = "creative_optimized"

\* a question of exactly twenty words, with no keyword, was routed as creative
C16_Witness ==
    /\ last.op = "route_request"
    /\ ~HasCodeWord(last.this.prompt)
    /\ ~HasAnalysisWord(last.this.prompt)
    /\ HasQuestionMark(last.this.prompt)
    /\ WordCount(last.this.prompt) = 20
    /\ last.this.decision.routing_reason = "creative_optimized"

\* C17: route_request always returns a decision, and the decision is one of
\* four, fixed by the category: simple_qa (gpt-3.5-turbo, openai, 0.01),
\* code_generation (gpt-4, openai, 0.05), analysis (deepseek-coder, deepseek,
\* 0.02), creative (claude-3-sonnet, anthropic, 0.03), the reason being the
\* category followed by _optimized.
C17_DecisionTable ==
    last.op = "route_request" =>
        last.this.decision \in
            {[model |-> Gpt35Turbo, provider |-> "openai", max_cost |-> 10,
              routing_reason |-> "simple_qa_optimized"],
             [model |-> Gpt4, provider |-> "openai", max_cost |-> 50,
              routing_reason |-> "code_generation_optimized"],
             [model |-> DeepseekCoder, provider |-> "deepseek", max_cost |-> 20,
              routing_reason |-> "analysis_optimized"],
             [model |-> Claude3Sonnet, provider |-> "anthropic", max_cost |-> 30,
              routing_reason |-> "creative_optimized"]}

\* the analysis example of the tests got deepseek-coder at deepseek for 0.02
C17_Witness ==
    /\ last.op = "route_request"
    /\ HasAnalysisWord(last.this.prompt)
    /\ Len(last.this.prompt) > 50
    /\ last.this.decision.model = DeepseekCoder
    /\ last.this.decision.provider = "deepseek"
    /\ last.this.decision.max_cost = 20

RECURSIVE SumOfCosts(_)
SumOfCosts(log) ==
    IF log = <<>> THEN 0 ELSE log[1].cost + SumOfCosts(Tail(log))

RECURSIVE SumOfTokens(_)
SumOfTokens(log) ==
    IF log = <<>> THEN 0 ELSE log[1].tokens_used + SumOfTokens(Tail(log))

\* C19: when every event recorded since the log was last empty carries a cost
\* and a token count, total_requests is the number of those events,
\* total_cost the sum of their costs, average_cost the quotient
\* total_cost / total_requests and total_tokens the sum of their token counts.
C19_TotalsOfCostedEvents ==
    (\A i \in 1..Len(events) :
        {"cost", "tokens_used"} \subseteq DOMAIN events[i]) =>
        /\ stats.total_requests = Len(events)
        /\ stats.total_cost = SumOfCosts(events)
        /\ stats.total_tokens = SumOfTokens(events)
        /\ stats.average_cost.den > 0
        /\ stats.average_cost.num * stats.total_requests =
              stats.total_cost * stats.average_cost.den

\* three events of cost 0.01, 0.02 and 0.03, recorded after a clear_events or
\* at the start: total 0.06, average 0.02, three requests
C19_Witness ==
    /\ Len(events) = 3
    /\ \A i \in 1..3 : {"cost", "tokens_used"} \subseteq DOMAIN events[i]
    /\ events[1].cost = 10 /\ events[2].cost = 20 /\ events[3].cost = 30
    /\ stats.total_requests = 3
    /\ stats.total_cost = 60
    /\ stats.average_cost.num = 20 * stats.average_cost.den
    /\ stats.total_tokens = 66

\* C20: record_request takes every event, with or without the optional
\* fields.  It appends the event and adds one to total_requests; an event
\* without a cost leaves total_cost and average_cost as they were, an event
\* without tokens_used leaves total_tokens as it was, and average_quality,
\* average_response_time, cost_savings and savings_percent are never changed.
C20_OptionalFields ==
    /\ [](\A e \in TelemetryEvents :
            Len(events) < MaxEvents => ENABLED RecordRequest(e))
    /\ [][\A e \in TelemetryEvents :
            RecordRequest(e) =>
               /\ events' = Append(events, e)
               /\ stats'.total_requests = stats.total_requests + 1
               /\ "cost" \notin DOMAIN e =>
                     /\ stats'.total_cost = stats.total_cost
                     /\ stats'.average_cost.num * stats.average_cost.den =
                           stats.average_cost.num * stats'.average_cost.den
               /\ "tokens_used" \notin DOMAIN e =>
                     stats'.total_tokens = stats.total_tokens
               /\ stats'.average_quality = stats.average_quality
               /\ stats'.average_response_time = stats.average_response_time
               /\ stats'.cost_savings = stats.cost_savings
               /\ stats'.savings_percent = stats.savings_percent]_vars

\* an event with neither cost nor tokens was recorded after a costed one: it
\* is in the log and counted, and the totals and the average are those of the
\* costed event
C20_Witness ==
    /\ last.op = "record_request"
    /\ DOMAIN last.arg = {"request_id", "error"}
    /\ Len(events) = 2
    /\ events[2] = last.arg
    /\ stats.total_requests = 2
    /\ stats.total_cost = 10
    /\ stats.total_tokens = 21
    /\ stats.average_cost.num = 10 * stats.average_cost.den
    /\ stats.average_quality = 0

\* the statistics of a collector that has recorded nothing
AllZero(st) ==
    /\ st.total_requests = 0
    /\ st.total_cost = 0
    /\ st.total_tokens = 0
    /\ st.average_cost.num = 0
    /\ st.average_quality = 0
    /\ st.average_response_time = 0
    /\ st.cost_savings = 0
    /\ st.savings_percent = 0

\* C21: whatever was recorded before, clear_events leaves the collector as
\* __init__ does: a get_stats made next returns the all-zero statistics, a
\* get_events made next returns the empty log, and a record_request made next
\* gives the log and the statistics it gives on a new collector.
C21_ClearRoundTrip ==
    /\ []((last.op = "get_stats" /\ last.after = "clear_events") =>
             AllZero(last.returned))
    /\ []((last.op = "get_events" /\ last.after = "clear_events") =>
             last.returned = <<>>)
    /\ [][\A e \in TelemetryEvents :
            (RecordRequest(e) /\ last.op = "clear_events") =>
               /\ events' = <<e>>
               /\ stats'.total_requests = 1
               /\ stats'.total_cost = IF "cost" \in DOMAIN e THEN e.cost ELSE 0
               /\ stats'.total_tokens =
                     IF "tokens_used" \in DOMAIN e THEN e.tokens_used ELSE 0
               /\ stats'.average_cost.num =
                     stats'.total_cost * stats'.average_cost.den]_vars

\* a get_stats made right after a clear_events that removed three events
\* returned the all-zero statistics
C21_Witness ==
    /\ last.op = "get_stats"
    /\ last.after = "clear_events"
    /\ last.cleared = 3
    /\ AllZero(last.returned)
    /\ events = <<>>

\* C22: get_stats only reads, and what it returns is a copy.  The call
\* changes neither the log nor the statistics and returns the statistics as
\* they are; a second call made with nothing but the caller's own writes in
\* between returns what the first returned; and a write into a returned dict
\* changes neither the log nor the statistics.
C22_GetStatsIsACopy ==
    [][/\ GetStats =>
            /\ UNCHANGED <<events, stats>>
            /\ last'.returned = stats
            /\ last.op = "get_stats" => last'.returned = last.returned
       /\ MutateSnapshot("total_cost", 999) =>
            /\ UNCHANGED <<events, stats>>
            /\ last'.returned = last.returned]_vars

\* one event of cost 0.01 was recorded; the caller wrote 0.999 into the
\* total_cost of the dict a first get_stats gave it, and a second get_stats
\* returned the statistics with total_cost 0.01
C22_Witness ==
    /\ last.op = "get_stats"
    /\ last.previous # NoSnapshot
    /\ last.previous.total_cost = 999
    /\ last.returned = stats
    /\ last.returned.total_requests = 1
    /\ last.returned.total_cost = 10

\* C29: whatever record_request and clear_events calls were made,
\* total_requests is the number of events in the log; and the log holds the
\* events recorded since it was last emptied, in the order they were
\* recorded: record_request puts its event at the end and moves no other,
\* get_events returns the log as it is, and nothing but record_request and
\* clear_events changes the log.
C29_CountIsLogLength ==
    /\ [](stats.total_requests = Len(events))
    /\ [][/\ \A e \in TelemetryEvents :
               RecordRequest(e) => events' = Append(events, e)
          /\ ClearEvents => events' = <<>>
          /\ GetEvents => (last'.returned = events /\ events' = events)
          /\ (/\ ~ClearEvents
              /\ \A e \in TelemetryEvents : ~RecordRequest(e)) =>
                events' = events]_vars

\* three events, the last of them not the first, were recorded in a log that
\* get_events then returned in that order; total_requests is three
C29_Witness ==
    /\ last.op = "get_events"
    /\ last.returned = events
    /\ Len(events) = 3
    /\ DOMAIN events[1] = {"request_id", "error"}
    /\ DOMAIN events[2] = {"request_id", "cost"}
    /\ DOMAIN events[3] = {"request_id", "tokens_used"}
    /\ stats.total_requests = 3

(***************************************************************************)
(* Claims about the Agent, checked under Spec unless said otherwise.       *)
(***************************************************************************)

\* the daily spend a check_request made now would decide against
DailySpendChecked ==
    IF (now - last_daily_reset) \div TicksPerDay >= 1 THEN 0 ELSE current_daily_spend

\* whether a check_request(c) made now would reject
WouldReject(c) ==
    \/ DailySpendChecked + c > daily_budget
    \/ current_monthly_spend + c > monthly_budget

\* C4: a route call performs track_spend at most once, and exactly once when
\* its provider step succeeded; the track_spend comes after check_request
\* admitted the request and after the response was obtained, and it adds the
\* response's cost, not the estimated cost.
C4_TrackOncePerCall ==
    /\ [](\A p \in Callers :
            /\ call[p].track_calls <= 1
            /\ pc[p] = "record" <=> call[p].track_calls = 1
            /\ call[p].track_calls = 1 =>
                 /\ call[p].e = NoError
                 /\ call[p].provider_calls = 1
                 /\ call[p].response # NoResponse)
    /\ [][/\ spend_history' # spend_history =>
               \E p \in Callers :
                  /\ pc[p] = "track" /\ pc'[p] = "record"
                  /\ call[p].seen_daily + call[p].estimated_cost
                       <= call[p].seen_daily_budget
                  /\ call[p].response.cost < call[p].estimated_cost
                  /\ current_daily_spend' =
                       current_daily_spend + call[p].response.cost
                  /\ current_monthly_spend' =
                       current_monthly_spend + call[p].response.cost
                  /\ spend_history' = Append(spend_history,
                       [cost |-> call[p].response.cost,
                        daily_total |-> current_daily_spend',
                        monthly_total |-> current_monthly_spend'])
          /\ \A p \in Callers :
               (pc[p] = "provider" /\ call'[p].response # NoResponse) =>
                  pc'[p] = "track"
          /\ \A p \in Callers :
               (result'[p] # result[p] /\ result'[p].outcome = "returned") =>
                  /\ call[p].track_calls = 1
                  /\ result'[p].cost = call[p].tracked]_vars

\* a call returned and the only spend on record is its response's cost
C4_Witness ==
    \E p \in Callers :
       /\ result[p].outcome = "returned"
       /\ result[p].cost > 0
       /\ Len(spend_history) = 1
       /\ spend_history[1].cost = result[p].cost
       /\ current_monthly_spend = result[p].cost

\* C5: when check_request rejects the request of a route call, the call goes
\* to its error path without reaching the provider step or track_spend, its
\* steps leave the spend counters and the spend history as they were (apart
\* from the auto-reset when due), and route raises that budget error.
C5_RejectionLeavesBudget ==
    /\ [](\A p \in Callers :
            (pc[p] = "except" /\ call[p].e.budget_type # "") =>
               /\ call[p].provider_calls = 0
               /\ call[p].track_calls = 0
               /\ call[p].response = NoResponse)
    /\ [][\A p \in Callers :
            /\ (/\ pc[p] = "check" /\ pc'[p] # "check"
                /\ WouldReject(call[p].estimated_cost)) =>
                  /\ pc'[p] = "except"
                  /\ call'[p].e.budget_type \in {"daily", "monthly"}
                  /\ call'[p].e.requested_cost = call[p].estimated_cost
                  /\ current_daily_spend' = DailySpendChecked
                  /\ current_monthly_spend' = current_monthly_spend
                  /\ spend_history' = spend_history
            /\ (/\ pc[p] = "except" /\ pc'[p] # "except"
                /\ call[p].e.budget_type # "") =>
                  /\ pc'[p] = "idle"
                  /\ result'[p].outcome = "raised"
                  /\ result'[p].e = call[p].e
                  /\ UNCHANGED guardian]_vars

\* a call was rejected with the daily error while spend was on record, and the
\* spend is still what the error reports
C5_Witness ==
    \E p \in Callers :
       /\ result[p].outcome = "raised"
       /\ result[p].e.budget_type = "daily"
       /\ result[p].e.current_spend > 0
       /\ current_daily_spend = result[p].e.current_spend
       /\ Len(spend_history) = 1
       /\ \A q \in Callers : pc[q] = "idle"

\* C6: nothing serializes the check-and-commit pair of concurrent route calls:
\* a caller's check_request and track_spend are never held back by where the
\* other callers are, and admission counts only committed spend, so a call
\* can be admitted while another admitted call has not committed yet.
C6_NoSerialization ==
    /\ [](\A p \in Callers :
            /\ pc[p] = "check" => ENABLED RouteCheck(p)
            /\ pc[p] = "track" => ENABLED RouteTrack(p))
    /\ [][\A p \in Callers :
            (pc[p] = "check" /\ pc'[p] # "check") =>
               (pc'[p] = "provider"
                  <=> ~WouldReject(call[p].estimated_cost))]_vars

\* both callers were admitted against the same daily spend and limit, both
\* committed, and the daily spend is beyond that limit
C6_Witness ==
    /\ \A p \in Callers :
          /\ pc[p] = "record"
          /\ call[p].seen_daily_budget = daily_budget
          /\ call[p].seen_daily + call[p].estimated_cost <= daily_budget
    /\ \A p, q \in Callers : call[p].seen_daily = call[q].seen_daily
    /\ current_daily_spend > daily_budget

C13_BlankPromptFailsFirst ==
    \A p \in Callers :
        (pc[p] # "idle" /\ prompt_not_empty(call[p].prompt) # NoError) =>
            /\ pc[p] \notin {"check", "provider", "track", "record"}
            /\ call[p].routing_decision = NoDecision
            /\ call[p].provider_calls = 0
            /\ call[p].track_calls = 0

\* C14: the estimated cost a route call hands to check_request is the
\* caller's max_cost when the caller passed one, and the ceiling of the
\* prompt's category when it passed none.
C14_MaxCostReplacesCeiling ==
    [][\A p \in Callers, prompt \in Prompts, mode \in OptimizeModes,
          max_cost \in MaxCosts :
         RouteStart(p, prompt, mode, max_cost) =>
            call'[p].estimated_cost =
               IF max_cost = None
               THEN routing_rules[Category(prompt)].max_cost
               ELSE TheValue(max_cost)]_vars

C25_ClearOneSession ==
    [][/\ \A sid \in SessionIds :
            ClearContext(Some(sid)) =>
               /\ DOMAIN contexts' = DOMAIN contexts \ {sid}
               /\ \A s \in DOMAIN contexts' : contexts'[s] = contexts[s]
       /\ ClearContext(None) => DOMAIN contexts' = {}]_vars

(***************************************************************************)
(* Claims about one Agent used sequentially, checked under SeqSpec.        *)
(***************************************************************************)
\* C26: when the route calls of an Agent are made one after another, no limit
\* is ever lowered and track_spend is called by route only, the daily spend
\* never passes the daily limit and the monthly spend never passes the
\* monthly limit: what a route call commits is never more than the estimate
\* its check_request admitted.
C26_SequentialWithinBudget ==
    /\ [](/\ current_daily_spend <= daily_budget
          /\ current_monthly_spend <= monthly_budget)
    /\ [][RouteTrack("a") =>
             /\ call["a"].e = NoError
             /\ call["a"].response.cost <= call["a"].estimated_cost
             /\ call["a"].seen_daily + call["a"].estimated_cost
                   <= call["a"].seen_daily_budget]_vars

\* with spend on the counters, the second call was rejected on the daily
\* limit, which its estimate would have passed
C26_Witness ==
    /\ pc["a"] = "idle"
    /\ result["a"].outcome = "raised"
    /\ result["a"].e.budget_type = "daily"
    /\ current_daily_spend > 0
    /\ current_daily_spend <= daily_budget
    /\ current_daily_spend + result["a"].e.requested_cost > daily_budget

\* the events that carry no error
SuccessEvents == {i \in 1..Len(events) : "error" \notin DOMAIN events[i]}

\* C27: between the route calls of an Agent used sequentially, with no budget
\* reset and no clear_events, the total_cost of the telemetry, the monthly
\* spend and the sum of the costs in the spend history are one amount, and
\* the spend history has as many entries as the log has events without an
\* error.  (The daily rollover touches the daily spend only, so it is not
\* excluded here.)
C27_ThreeLedgersAgree ==
    pc["a"] = "idle" =>
        /\ stats.total_cost = current_monthly_spend
        /\ current_monthly_spend = SumOfCosts(spend_history)
        /\ Len(spend_history) = Cardinality(SuccessEvents)

\* after one answered call and one rejected call: one history entry, two
\* events, and the cost of the answered call on all three ledgers
C27_Witness ==
    /\ pc["a"] = "idle"
    /\ Len(events) = 2
    /\ Cardinality(SuccessEvents) = 1
    /\ Len(spend_history) = 1
    /\ stats.total_cost = spend_history[1].cost
    /\ current_monthly_spend = spend_history[1].cost
    /\ current_monthly_spend > 0

\* C28: a route call puts exactly one event in the log, as its last step
\* before it returns or raises.  The event of a call that returns carries the
\* cost of the response and no error; the event of a call that raises, on a
\* provider failure and on a budget rejection alike, carries the error and no
\* cost, so that total_requests grows by one and total_cost stays.  No other
\* step of a call writes to the log.
\* Checked under Spec, with two callers.
C28_OneEventPerCall ==
    [][/\ \A p \in Callers :
            (pc[p] # "idle" /\ pc'[p] = "idle") =>
               /\ Len(events') = Len(events) + 1
               /\ LET e == events'[Len(events')]
                  IN
                   /\ events' = Append(events, e)
                   /\ e.request_id = call[p].request_id
                   /\ e.request_id = result'[p].request_id
                   /\ stats'.total_requests = stats.total_requests + 1
                   /\ result'[p].outcome = "returned" =>
                         /\ "error" \notin DOMAIN e
                         /\ e.cost = result'[p].cost
                         /\ stats'.total_cost = stats.total_cost + e.cost
                   /\ result'[p].outcome = "raised" =>
                         /\ "cost" \notin DOMAIN e
                         /\ e.error = result'[p].e.message
                         /\ stats'.total_cost = stats.total_cost
                   /\ result'[p].outcome \in {"returned", "raised"}
       /\ (\A p \in Callers : ~(pc[p] # "idle" /\ pc'[p] = "idle")) =>
               UNCHANGED <<events, stats>>]_vars

\* a call rejected on a budget left one event, with the error and no cost,
\* beside the event of the call answered before it
C28_Witness ==
    \E p \in Callers :
        /\ pc[p] = "idle"
        /\ result[p].outcome = "raised"
        /\ result[p].e.budget_type \in {"daily", "monthly"}
        /\ Len(events) = 2
        /\ "cost" \in DOMAIN events[1]
        /\ events[2].request_id = result[p].request_id
        /\ "error" \in DOMAIN events[2]
        /\ "cost" \notin DOMAIN events[2]
        /\ stats.total_requests = 2
        /\ stats.total_cost = events[1].cost

(***************************************************************************)
(* Claims checked under AdminSpec.                                         *)
(***************************************************************************)
\* the smallest max_cost of the routing rules
SmallestCeiling ==
    CHOOSE c \in {routing_rules[k].max_cost : k \in DOMAIN routing_rules} :
       \A k \in DOMAIN routing_rules : c <= routing_rules[k].max_cost

\* no request can be admitted on the monthly budget
MonthExhausted == current_monthly_spend + SmallestCeiling > monthly_budget

\* C30: the monthly spend is never reset on its own: the passage of time does
\* not change it and check_request does not, its daily auto-reset included.
\* So from the moment the monthly spend plus the smallest category ceiling
\* passes the monthly limit, every route call is rejected with a budget error,
\* and this lasts until reset_monthly_budget is called or the monthly limit is
\* raised.
C30_MonthNeverRollsOver ==
    [][/\ (Tick \/ RouteCheck("a")) => current_monthly_spend' = current_monthly_spend
       /\ (RouteCheck("a") /\ MonthExhausted) =>
             /\ pc'["a"] = "except"
             /\ call'["a"].e.budget_type \in {"daily", "monthly"}
             /\ call'["a"].e.requested_cost = call["a"].estimated_cost
       /\ (MonthExhausted /\ ~MonthExhausted') =>
             \/ ResetMonthlyBudget
             \/ monthly_budget' > monthly_budget]_vars

\* a day after the spend was made, with the daily spend reset by the check
\* itself, a call was rejected on the monthly budget, which is still exhausted
C30_Witness ==
    /\ pc["a"] = "idle"
    /\ result["a"].outcome = "raised"
    /\ result["a"].e.budget_type = "monthly"
    /\ last_daily_reset > 0
    /\ current_daily_spend = 0
    /\ current_monthly_spend > 0
    /\ MonthExhausted

\* C8: a failure of telemetry.record_request while the success event is being
\* recorded does not abort the call: every call whose spend was tracked ends
\* by returning its response.
\* Checked under FaultSpec.
C8_TelemetryFailureNeverAborts ==
    [][\A p \in Callers :
         (call[p].track_calls = 1 /\ pc'[p] = "idle") =>
            result'[p].outcome = "returned"]_vars

====
